---- MODULE Spec2Model ----
(***************************************************************************)
(* Model of the single-slot GPU server (gpu-server-qwen):                  *)
(*   - GPUScheduler (app/service/scheduler.py): the lock-protected slot    *)
(*     state, modelled statement by statement under threading.Lock;        *)
(*   - the /tryon request handler and its background task                  *)
(*     process_inference_async (app/routers/tryon.py);                     *)
(*   - send_callback / send_error_callback (app/service/asset_callback.py).*)
(*                                                                         *)
(* Two specifications share the slot variables:                            *)
(*   SchedSpec : any number of threads calling accept_job / complete_job   *)
(*               with arbitrary job ids, one statement per step;           *)
(*   Spec      : the composed service, submissions racing for the slot.    *)
(***************************************************************************)
EXTENDS Integers, Sequences, FiniteSets, TLC

\* ---------------------------------------------------------------- bounds
NumThreads == 3
NumJobIds == 2
NumSubs == 2
MaxRetries == 3

Threads == 1..NumThreads
JobIds == 1..NumJobIds
Subs == 1..NumSubs
\* Python None for Optional[str] current_job_id
NoJob == 0

VARIABLES
    \* GPUScheduler fields
    busy, current_job_id, queue_length,
    \* threading.Lock: 0 when free, else the thread inside a `with self._lock`
    lockHolder,
    \* per calling thread: position, method called, job_id argument, return value,
    \* whether logger.warning was emitted by the call in progress
    tpc, top, targ, tret, twarn,
    \* history: slot state observed when the call entered the lock
    tpre,
    \* history: per job id, successful accepts not yet followed by a
    \* complete_job call carrying that job id
    admitted,
    \* per calling thread: the dict get_status is building
    tsnap,
    \* history: job id of the latest complete_job call that matched an
    \* admitted occupant, None before the first
    last_released,
    \* config.yaml asset_service.retries: whether the key is present, its value
    retries_present, max_retries,
    \* per submission to POST /tryon: position of the handler / background task
    spc,
    \* per submission: form field job_id
    sjob,
    \* per submission, the send_callback call in progress: loop variable
    \* attempt, file_handle open, how the call ended
    attempt, file_handle, dresult,
    \* per submission: why the try block of process_inference_async was left
    sfail,
    \* per submission: the arguments of the send_callback call in progress
    cb_args,
    \* per submission, the send_callback call in progress: status of the
    \* latest response (or "exc"), and history of the call: posts made,
    \* asyncio.sleep durations in order, whether a 2xx response was received
    response, posts, delays, got2xx,
    \* history, per submission: what run_inference did for it
    engine,
    \* per submission: which of temp_masked_path / temp_garment_path are set,
    \* and which upload_*.tmp files written for it are on disk
    tmp_paths, tmp_on_disk,
    \* per request: the body of the /gpu/status response it received
    seen,
    \* per request: the GPUScheduler instance its latest get_scheduler()
    \* call returned
    sref,
    \* per submission: local is_valid of process_inference_async, TRUE until
    \* a validate_image_file call returns False
    is_valid,
    \* per request: what is_models_loaded() returned in check_models_loaded,
    \* TRUE until the middleware has evaluated it
    loaded,
    \* history, per submission: the send_callback calls its task has made so
    \* far, each by its outcome ("success" or "error"), in order
    cb_calls,
    \* scheduler.py module global: None, or the instance (numbered in order
    \* of construction)
    _scheduler

schedVars == <<busy, current_job_id, queue_length>>
threadVars == <<lockHolder, tpc, top, targ, tret, twarn, tpre, admitted, tsnap, last_released>>
cfgVars == <<retries_present, max_retries>>
callVars == <<attempt, file_handle, response, posts, delays, got2xx>>
histVars == <<engine, tmp_paths, tmp_on_disk, seen, sref, is_valid, _scheduler>>
subVars == <<spc, sjob, attempt, file_handle, dresult, sfail, cb_args,
             response, posts, delays, got2xx,
             engine, tmp_paths, tmp_on_disk, seen, sref, is_valid, loaded, cb_calls, _scheduler>>
vars == <<busy, current_job_id, queue_length, lockHolder,
          tpc, top, targ, tret, twarn, tpre, admitted, tsnap, last_released,
          retries_present, max_retries,
          spc, sjob, attempt, file_handle, dresult, sfail, cb_args,
          response, posts, delays, got2xx,
          engine, tmp_paths, tmp_on_disk, seen, sref, is_valid, loaded, cb_calls, _scheduler>>

RECURSIVE SumOver(_, _)
SumOver(f, S) ==
    IF S = {} THEN 0
    ELSE LET x == CHOOSE y \in S : TRUE IN f[x] + SumOver(f, S \ {x})

AdmittedCount == SumOver(admitted, JobIds)

Snapshot ==
    [busy |-> busy, current_job_id |-> current_job_id,
     queue_length |-> queue_length, admitted |-> AdmittedCount]

NoSnapshot ==
    [busy |-> FALSE, current_job_id |-> NoJob, queue_length |-> 0, admitted |-> 0]

\* the dict of get_status before any of its three entries is evaluated
NoStatus == [busy |-> FALSE, current_job_id |-> NoJob, queue_length |-> 0]

\* ------------------------------------------------------- GPUScheduler.__init__
SchedulerInit ==
    /\ busy = FALSE
    /\ current_job_id = NoJob
    /\ queue_length = 0
    /\ lockHolder = 0

ThreadsIdle ==
    /\ tpc = [t \in Threads |-> "idle"]
    /\ top = [t \in Threads |-> "none"]
    /\ targ = [t \in Threads |-> NoJob]
    /\ tret = [t \in Threads |-> "None"]
    /\ twarn = [t \in Threads |-> FALSE]
    /\ tpre = [t \in Threads |-> NoSnapshot]
    /\ admitted = [j \in JobIds |-> 0]
    /\ tsnap = [t \in Threads |-> NoStatus]
    /\ last_released = NoJob

\* load_config: asset_service.retries is not among the required fields
ConfigInit ==
    /\ retries_present \in BOOLEAN
    /\ max_retries \in -1..MaxRetries
    /\ ~retries_present => max_retries = 0

\* Python None for Optional[GPUScheduler] _scheduler
NoScheduler == 0

\* send_callback arguments before any call
NoArgs == [output_image_path |-> "", inference_time_ms |-> 0, error |-> ""]

SubsInit ==
    /\ spc = [s \in Subs |-> "new"]
    /\ sjob = [s \in Subs |-> NoJob]
    /\ attempt = [s \in Subs |-> 0]
    /\ file_handle = [s \in Subs |-> FALSE]
    /\ dresult = [s \in Subs |-> "none"]
    /\ sfail = [s \in Subs |-> "none"]
    /\ cb_args = [s \in Subs |-> NoArgs]
    /\ response = [s \in Subs |-> "none"]
    /\ posts = [s \in Subs |-> 0]
    /\ delays = [s \in Subs |-> <<>>]
    /\ got2xx = [s \in Subs |-> FALSE]
    /\ engine = [s \in Subs |-> "idle"]
    /\ tmp_paths = [s \in Subs |-> {}]
    /\ tmp_on_disk = [s \in Subs |-> {}]
    /\ seen = [s \in Subs |-> NoStatus]
    /\ sref = [s \in Subs |-> NoScheduler]
    /\ is_valid = [s \in Subs |-> TRUE]
    /\ loaded = [s \in Subs |-> TRUE]
    /\ cb_calls = [s \in Subs |-> <<>>]
    /\ _scheduler = NoScheduler

SchedInit ==
    /\ SchedulerInit
    /\ ThreadsIdle
    /\ SubsInit
    /\ retries_present = TRUE
    /\ max_retries = MaxRetries

\* ------------------------------------------------------------ threading.Lock
LockAvailable_Unguarded == TRUE

\* `with self._lock:` can be entered only while no other thread is inside
LockAvailable == lockHolder = 0

Goto(t, label) == tpc' = [tpc EXCEPT ![t] = label]

\* a caller invokes scheduler.accept_job(job_id)
CallAccept(t) ==
    /\ tpc[t] = "idle"
    /\ \E j \in JobIds : targ' = [targ EXCEPT ![t] = j]
    /\ top' = [top EXCEPT ![t] = "accept"]
    /\ Goto(t, "a_lock")
    /\ UNCHANGED <<schedVars, lockHolder, tret, twarn, tpre, admitted, cfgVars, subVars, tsnap, last_released>>

\* a caller invokes scheduler.complete_job(job_id)
CallComplete(t) ==
    /\ tpc[t] = "idle"
    /\ \E j \in JobIds : targ' = [targ EXCEPT ![t] = j]
    /\ top' = [top EXCEPT ![t] = "complete"]
    /\ Goto(t, "c_lock")
    /\ UNCHANGED <<schedVars, lockHolder, tret, twarn, tpre, admitted, cfgVars, subVars, tsnap, last_released>>

\* ------------------------------------------------- GPUScheduler.accept_job
AcceptLock(t) ==
    /\ tpc[t] = "a_lock"
    /\ LockAvailable
    /\ lockHolder' = t
    /\ tpre' = [tpre EXCEPT ![t] = Snapshot]
    /\ Goto(t, "a_check")
    /\ UNCHANGED <<schedVars, top, targ, tret, twarn, admitted, cfgVars, subVars, tsnap, last_released>>

AcceptReject_Overwrite(t) ==
    /\ tpc[t] = "a_check"
    /\ busy
    /\ current_job_id' = targ[t]
    /\ tret' = [tret EXCEPT ![t] = "False"]
    /\ Goto(t, "unlock")
    /\ UNCHANGED <<busy, queue_length, lockHolder, top, targ, twarn, tpre, admitted, cfgVars, subVars, tsnap, last_released>>

\* if self._busy: log gpu_busy_rejected; return False
AcceptReject(t) ==
    /\ tpc[t] = "a_check"
    /\ busy
    /\ tret' = [tret EXCEPT ![t] = "False"]
    /\ Goto(t, "unlock")
    /\ UNCHANGED <<schedVars, lockHolder, top, targ, twarn, tpre, admitted, cfgVars, subVars, tsnap, last_released>>

\* the slot is free: fall through to the assignments
AcceptFree(t) ==
    /\ tpc[t] = "a_check"
    /\ ~busy
    /\ Goto(t, "a_set_busy")
    /\ UNCHANGED <<schedVars, lockHolder, top, targ, tret, twarn, tpre, admitted, cfgVars, subVars, tsnap, last_released>>

\* self._busy = True
AcceptSetBusy(t) ==
    /\ tpc[t] = "a_set_busy"
    /\ busy' = TRUE
    /\ Goto(t, "a_set_job")
    /\ UNCHANGED <<current_job_id, queue_length, lockHolder, top, targ, tret, twarn, tpre, admitted, cfgVars, subVars, tsnap, last_released>>

\* self._current_job_id = job_id
AcceptSetJob(t) ==
    /\ tpc[t] = "a_set_job"
    /\ current_job_id' = targ[t]
    /\ Goto(t, "a_incr")
    /\ UNCHANGED <<busy, queue_length, lockHolder, top, targ, tret, twarn, tpre, admitted, cfgVars, subVars, tsnap, last_released>>

AcceptIncr_Skipped(t) ==
    /\ tpc[t] = "a_incr"
    /\ tret' = [tret EXCEPT ![t] = "True"]
    /\ admitted' = [admitted EXCEPT ![targ[t]] = @ + 1]
    /\ Goto(t, "unlock")
    /\ UNCHANGED <<schedVars, lockHolder, top, targ, twarn, tpre, cfgVars, subVars, tsnap, last_released>>

\* self._queue_length += 1; log job_accepted; return True
AcceptIncr(t) ==
    /\ tpc[t] = "a_incr"
    /\ queue_length' = queue_length + 1
    /\ tret' = [tret EXCEPT ![t] = "True"]
    /\ admitted' = [admitted EXCEPT ![targ[t]] = @ + 1]
    /\ Goto(t, "unlock")
    /\ UNCHANGED <<busy, current_job_id, lockHolder, top, targ, twarn, tpre, cfgVars, subVars, tsnap, last_released>>

\* ----------------------------------------------- GPUScheduler.complete_job
CompleteLock(t) ==
    /\ tpc[t] = "c_lock"
    /\ LockAvailable
    /\ lockHolder' = t
    /\ tpre' = [tpre EXCEPT ![t] = Snapshot]
    /\ Goto(t, "c_check")
    /\ UNCHANGED <<schedVars, top, targ, tret, twarn, admitted, cfgVars, subVars, tsnap, last_released>>

\* a complete_job(job_id) call ends the admission of job_id, if there is one
Discharge(j) == [admitted EXCEPT ![j] = IF @ > 0 THEN @ - 1 ELSE 0]

\* if self._current_job_id == job_id:
CompleteMatch(t) ==
    /\ tpc[t] = "c_check"
    /\ current_job_id = targ[t]
    /\ admitted' = Discharge(targ[t])
    /\ last_released' = IF admitted[targ[t]] > 0 THEN targ[t] ELSE last_released
    /\ Goto(t, "c_clr_busy")
    /\ UNCHANGED <<schedVars, lockHolder, top, targ, tret, twarn, tpre, cfgVars, subVars, tsnap>>

CompleteMismatch_Silent(t) ==
    /\ tpc[t] = "c_check"
    /\ current_job_id # targ[t]
    /\ admitted' = Discharge(targ[t])
    /\ Goto(t, "c_dec_mismatch")
    /\ UNCHANGED <<schedVars, lockHolder, top, targ, tret, twarn, tpre, cfgVars, subVars, tsnap, last_released>>

\* else: logger.warning("Completed job ... but current job is ...")
CompleteMismatch(t) ==
    /\ tpc[t] = "c_check"
    /\ current_job_id # targ[t]
    /\ twarn' = [twarn EXCEPT ![t] = TRUE]
    /\ admitted' = Discharge(targ[t])
    /\ Goto(t, "c_dec_mismatch")
    /\ UNCHANGED <<schedVars, lockHolder, top, targ, tret, tpre, cfgVars, subVars, tsnap, last_released>>

CompleteClearBusy_Kept(t) ==
    /\ tpc[t] = "c_clr_busy"
    /\ Goto(t, "c_clr_job")
    /\ UNCHANGED <<schedVars, lockHolder, top, targ, tret, twarn, tpre, admitted, cfgVars, subVars, tsnap, last_released>>

\* self._busy = False
CompleteClearBusy(t) ==
    /\ tpc[t] = "c_clr_busy"
    /\ busy' = FALSE
    /\ Goto(t, "c_clr_job")
    /\ UNCHANGED <<current_job_id, queue_length, lockHolder, top, targ, tret, twarn, tpre, admitted, cfgVars, subVars, tsnap, last_released>>

CompleteClearJob_Kept(t) ==
    /\ tpc[t] = "c_clr_job"
    /\ Goto(t, "c_dec_match")
    /\ UNCHANGED <<schedVars, lockHolder, top, targ, tret, twarn, tpre, admitted, cfgVars, subVars, tsnap, last_released>>

\* self._current_job_id = None
CompleteClearJob(t) ==
    /\ tpc[t] = "c_clr_job"
    /\ current_job_id' = NoJob
    /\ Goto(t, "c_dec_match")
    /\ UNCHANGED <<busy, queue_length, lockHolder, top, targ, tret, twarn, tpre, admitted, cfgVars, subVars, tsnap, last_released>>

DecrementFloored_NoFloor(n) == n - 1

\* if self._queue_length > 0: self._queue_length -= 1
DecrementFloored(n) == IF n > 0 THEN n - 1 ELSE n

\* matching branch: decrement, log job_completed
CompleteDecMatch(t) ==
    /\ tpc[t] = "c_dec_match"
    /\ queue_length' = DecrementFloored(queue_length)
    /\ Goto(t, "unlock")
    /\ UNCHANGED <<busy, current_job_id, lockHolder, top, targ, tret, twarn, tpre, admitted, cfgVars, subVars, tsnap, last_released>>

\* mismatching branch: decrement only, _busy and _current_job_id are kept
CompleteDecMismatch(t) ==
    /\ tpc[t] = "c_dec_mismatch"
    /\ queue_length' = DecrementFloored(queue_length)
    /\ Goto(t, "unlock")
    /\ UNCHANGED <<busy, current_job_id, lockHolder, top, targ, tret, twarn, tpre, admitted, cfgVars, subVars, tsnap, last_released>>

\* -------------------------------------------- GPUScheduler.can_accept_job
\* a caller invokes scheduler.can_accept_job()
CallCanAccept(t) ==
    /\ tpc[t] = "idle"
    /\ top' = [top EXCEPT ![t] = "can_accept"]
    /\ Goto(t, "k_lock")
    /\ UNCHANGED <<schedVars, lockHolder, targ, tret, twarn, tpre, admitted, cfgVars, subVars, tsnap, last_released>>

CanAcceptLock(t) ==
    /\ tpc[t] = "k_lock"
    /\ LockAvailable
    /\ lockHolder' = t
    /\ tpre' = [tpre EXCEPT ![t] = Snapshot]
    /\ Goto(t, "k_read")
    /\ UNCHANGED <<schedVars, top, targ, tret, twarn, admitted, cfgVars, subVars, tsnap, last_released>>

CanAcceptRead_Inverted(t) ==
    /\ tpc[t] = "k_read"
    /\ tret' = [tret EXCEPT ![t] = IF busy THEN "True" ELSE "False"]
    /\ Goto(t, "unlock")
    /\ UNCHANGED <<schedVars, lockHolder, top, targ, twarn, tpre, admitted, cfgVars, subVars, tsnap, last_released>>

\* return not self._busy
CanAcceptRead(t) ==
    /\ tpc[t] = "k_read"
    /\ tret' = [tret EXCEPT ![t] = IF ~busy THEN "True" ELSE "False"]
    /\ Goto(t, "unlock")
    /\ UNCHANGED <<schedVars, lockHolder, top, targ, twarn, tpre, admitted, cfgVars, subVars, tsnap, last_released>>

\* ------------------------------------------------ GPUScheduler.get_status
\* a caller invokes scheduler.get_status()
CallStatus(t) ==
    /\ tpc[t] = "idle"
    /\ top' = [top EXCEPT ![t] = "status"]
    /\ Goto(t, "s_lock")
    /\ UNCHANGED <<schedVars, lockHolder, targ, tret, twarn, tpre, admitted, cfgVars, subVars, tsnap, last_released>>

StatusLock_NoLock(t) ==
    /\ tpc[t] = "s_lock"
    /\ tpre' = [tpre EXCEPT ![t] = Snapshot]
    /\ Goto(t, "s_busy")
    /\ UNCHANGED <<schedVars, lockHolder, top, targ, tret, twarn, admitted, cfgVars, subVars, tsnap, last_released>>

StatusLock(t) ==
    /\ tpc[t] = "s_lock"
    /\ LockAvailable
    /\ lockHolder' = t
    /\ tpre' = [tpre EXCEPT ![t] = Snapshot]
    /\ Goto(t, "s_busy")
    /\ UNCHANGED <<schedVars, top, targ, tret, twarn, admitted, cfgVars, subVars, tsnap, last_released>>

\* "busy": self._busy,
StatusReadBusy(t) ==
    /\ tpc[t] = "s_busy"
    /\ tsnap' = [tsnap EXCEPT ![t].busy = busy]
    /\ Goto(t, "s_job")
    /\ UNCHANGED <<schedVars, lockHolder, top, targ, tret, twarn, tpre, admitted, cfgVars, subVars, last_released>>

\* "current_job_id": self._current_job_id,
StatusReadJob(t) ==
    /\ tpc[t] = "s_job"
    /\ tsnap' = [tsnap EXCEPT ![t].current_job_id = current_job_id]
    /\ Goto(t, "s_len")
    /\ UNCHANGED <<schedVars, lockHolder, top, targ, tret, twarn, tpre, admitted, cfgVars, subVars, last_released>>

\* "queue_length": self._queue_length; the dict is returned
StatusReadLen(t) ==
    /\ tpc[t] = "s_len"
    /\ tsnap' = [tsnap EXCEPT ![t].queue_length = queue_length]
    /\ Goto(t, "unlock")
    /\ UNCHANGED <<schedVars, lockHolder, top, targ, tret, twarn, tpre, admitted, cfgVars, subVars, last_released>>

\* leaving the `with` block releases the lock and the call returns to its
\* caller, which may call again
Unlock(t) ==
    /\ tpc[t] = "unlock"
    /\ lockHolder' = 0
    /\ top' = [top EXCEPT ![t] = "none"]
    /\ targ' = [targ EXCEPT ![t] = NoJob]
    /\ tret' = [tret EXCEPT ![t] = "None"]
    /\ twarn' = [twarn EXCEPT ![t] = FALSE]
    /\ tpre' = [tpre EXCEPT ![t] = NoSnapshot]
    /\ tsnap' = [tsnap EXCEPT ![t] = NoStatus]
    /\ Goto(t, "idle")
    /\ UNCHANGED <<schedVars, admitted, cfgVars, subVars, last_released>>

SchedNext ==
    \E t \in Threads :
        \/ CallAccept(t)
        \/ CallComplete(t)
        \/ AcceptLock(t)
        \/ AcceptReject(t)
        \/ AcceptFree(t)
        \/ AcceptSetBusy(t)
        \/ AcceptSetJob(t)
        \/ AcceptIncr(t)
        \/ CompleteLock(t)
        \/ CompleteMatch(t)
        \/ CompleteMismatch(t)
        \/ CompleteClearBusy(t)
        \/ CompleteClearJob(t)
        \/ CompleteDecMatch(t)
        \/ CompleteDecMismatch(t)
        \/ CallCanAccept(t)
        \/ CanAcceptLock(t)
        \/ CanAcceptRead(t)
        \/ CallStatus(t)
        \/ StatusLock(t)
        \/ StatusReadBusy(t)
        \/ StatusReadJob(t)
        \/ StatusReadLen(t)
        \/ Unlock(t)

SchedSpec == SchedInit /\ [][SchedNext]_vars

\* ======================================================================
\* The composed service.  Handlers and the background task run on one
\* asyncio event loop; each scheduler method runs to completion inside
\* its lock, so it acts here as one step on the slot record.
\* ======================================================================
Slot == [busy |-> busy, current_job_id |-> current_job_id, queue_length |-> queue_length]

SetSlot(slot) ==
    /\ busy' = slot.busy
    /\ current_job_id' = slot.current_job_id
    /\ queue_length' = slot.queue_length

\* GPUScheduler.can_accept_job: return not self._busy
can_accept_job(slot) == ~slot.busy

accept_job_Unchecked(slot, job_id) ==
    [ret |-> TRUE,
     slot |-> [busy |-> TRUE, current_job_id |-> job_id,
               queue_length |-> slot.queue_length + 1]]

\* GPUScheduler.accept_job, the whole locked region
accept_job(slot, job_id) ==
    IF slot.busy
    THEN [ret |-> FALSE, slot |-> slot]
    ELSE [ret |-> TRUE,
          slot |-> [busy |-> TRUE, current_job_id |-> job_id,
                    queue_length |-> slot.queue_length + 1]]

\* GPUScheduler.complete_job, the whole locked region
complete_job(slot, job_id) ==
    IF slot.current_job_id = job_id
    THEN [busy |-> FALSE, current_job_id |-> NoJob,
          queue_length |-> DecrementFloored(slot.queue_length)]
    ELSE [slot EXCEPT !.queue_length = DecrementFloored(slot.queue_length)]

\* shapes of the optional form field `config`: not sent, a JSON object,
\* text that is not JSON, JSON that is not an object (a list, a number)
ConfigShapes == {"absent", "object", "badjson", "nonobject"}

\* json.loads(config) under `except json.JSONDecodeError`, then
\* inference_config.get(...): only a dict (or the default {}) has .get
ConfigResolves(shape) == shape \in {"absent", "object", "badjson"}

\* what the POST to the asset service can come back with
Responses == {"200", "201", "500", "exc"}

\* if response.status_code == 200
ResponseOk(r) == r = "200"

\* HTTP success statuses among Responses
Is2xx(r) == r \in {"200", "201"}

get_scheduler_Fresh(g) == [global |-> g + 1, ret |-> g + 1]

\* get_scheduler(): the module global after the call and the instance
\* returned; GPUScheduler() is constructed only while the global is None
get_scheduler(g) ==
    LET inst == IF g = NoScheduler THEN NoScheduler + 1 ELSE g
    IN  [global |-> inst, ret |-> inst]

\* the event loop thread is not inside run_inference: the coroutine has
\* no await, so from `await run_inference(...)` to its return or raise no
\* other handler or task runs
EventLoopFree == \A u \in Subs : spc[u] # "running"

\* model_cache.is_models_loaded(): the values a call may return
is_models_loaded == BOOLEAN

check_models_loaded_Open(path, ld) == TRUE

\* middleware check_models_loaded: TRUE when the request is passed on to
\* its route (call_next), FALSE when it is answered 503 "unavailable"
check_models_loaded(path, ld) == path = "/health" \/ ld

\* a request answered by the middleware: 503, no route handler runs
Unavailable(s) ==
    /\ spc' = [spc EXCEPT ![s] = "r503"]
    /\ loaded' = [loaded EXCEPT ![s] = FALSE]

tryon_check_AuthLate(s) ==
    /\ spc[s] = "new"
    /\ EventLoopFree
    /\ \E ld \in is_models_loaded :
        IF ~check_models_loaded("/tryon", ld)
        THEN /\ Unavailable(s)
             /\ UNCHANGED <<sjob, _scheduler, sref>>
        ELSE /\ loaded' = [loaded EXCEPT ![s] = ld]
             /\ \E j \in JobIds, authed \in BOOLEAN, qwen \in BOOLEAN :
                 /\ sjob' = [sjob EXCEPT ![s] =
                               IF can_accept_job(Slot) /\ authed /\ qwen THEN j ELSE NoJob]
                 /\ spc' = [spc EXCEPT ![s] =
                              IF ~can_accept_job(Slot) THEN "r429"
                              ELSE IF ~authed THEN "r401"
                              ELSE IF ~qwen THEN "r400"
                              ELSE "admit"]
                 /\ _scheduler' = get_scheduler(_scheduler).global
                 /\ sref' = [sref EXCEPT ![s] = get_scheduler(_scheduler).ret]
    /\ UNCHANGED <<schedVars, dresult, sfail, cb_args, callVars, threadVars, cfgVars, cb_calls,
                   engine, tmp_paths, tmp_on_disk, seen, is_valid>>

\* POST /tryon up to the can_accept_job check: the middleware, then
\* require_internal_auth (401), the provider check (400), get_scheduler()
\* and can_accept_job() (429)
tryon_check(s) ==
    /\ spc[s] = "new"
    /\ EventLoopFree
    /\ \E ld \in is_models_loaded :
        IF ~check_models_loaded("/tryon", ld)
        THEN /\ Unavailable(s)
             /\ UNCHANGED <<sjob, _scheduler, sref>>
        ELSE /\ loaded' = [loaded EXCEPT ![s] = ld]
             /\ \E j \in JobIds, authed \in BOOLEAN, qwen \in BOOLEAN :
                 /\ sjob' = [sjob EXCEPT ![s] =
                               IF authed /\ qwen /\ can_accept_job(Slot) THEN j ELSE NoJob]
                 /\ spc' = [spc EXCEPT ![s] =
                              IF ~authed THEN "r401"
                              ELSE IF ~qwen THEN "r400"
                              ELSE IF ~can_accept_job(Slot) THEN "r429"
                              ELSE "admit"]
                 /\ IF authed /\ qwen
                    THEN /\ _scheduler' = get_scheduler(_scheduler).global
                         /\ sref' = [sref EXCEPT ![s] = get_scheduler(_scheduler).ret]
                    ELSE UNCHANGED <<_scheduler, sref>>
    /\ UNCHANGED <<schedVars, dresult, sfail, cb_args, callVars, threadVars, cfgVars, cb_calls,
                   engine, tmp_paths, tmp_on_disk, seen, is_valid>>

\* GPUScheduler.get_status: the dict built from the three fields
get_status(slot) ==
    [busy |-> slot.busy, current_job_id |-> slot.current_job_id,
     queue_length |-> slot.queue_length]

\* GET /gpu/status: the middleware, then require_internal_auth,
\* get_scheduler().get_status(), the response body
get_gpu_status(s) ==
    /\ spc[s] = "new"
    /\ EventLoopFree
    /\ \E ld \in is_models_loaded :
        IF ~check_models_loaded("/gpu/status", ld)
        THEN /\ Unavailable(s)
             /\ UNCHANGED <<_scheduler, sref, seen>>
        ELSE /\ loaded' = [loaded EXCEPT ![s] = ld]
             /\ \E authed \in BOOLEAN :
                 IF ~authed
                 THEN /\ spc' = [spc EXCEPT ![s] = "r401"]
                      /\ UNCHANGED <<_scheduler, sref, seen>>
                 ELSE /\ spc' = [spc EXCEPT ![s] = "s200"]
                      /\ _scheduler' = get_scheduler(_scheduler).global
                      /\ sref' = [sref EXCEPT ![s] = get_scheduler(_scheduler).ret]
                      /\ seen' = [seen EXCEPT ![s] = get_status(Slot)]
    /\ UNCHANGED <<schedVars, sjob, dresult, sfail, cb_args, callVars, threadVars, cfgVars, cb_calls,
                   engine, tmp_paths, tmp_on_disk, is_valid>>

\* GET /health: passed on by the middleware whatever is_models_loaded()
\* returns; the handler answers 200 and uses no scheduler
health(s) ==
    /\ spc[s] = "new"
    /\ EventLoopFree
    /\ \E ld \in is_models_loaded :
        /\ check_models_loaded("/health", ld)
        /\ spc' = [spc EXCEPT ![s] = "h200"]
    /\ UNCHANGED <<schedVars, sjob, dresult, sfail, cb_args, callVars, threadVars, cfgVars,
                   loaded, cb_calls, histVars>>

tryon_accept_rejected_Releases(s) ==
    /\ spc[s] = "admit"
    /\ EventLoopFree
    /\ ~accept_job(Slot, sjob[s]).ret
    /\ SetSlot(complete_job(accept_job(Slot, sjob[s]).slot, sjob[s]))
    /\ spc' = [spc EXCEPT ![s] = "r429_race"]
    /\ sjob' = [sjob EXCEPT ![s] = NoJob]
    /\ UNCHANGED <<dresult, sfail, cb_args, callVars, threadVars, cfgVars, loaded, cb_calls, histVars>>

\* if not scheduler.accept_job(job_id): 429 (race)
tryon_accept_rejected(s) ==
    /\ spc[s] = "admit"
    /\ EventLoopFree
    /\ ~accept_job(Slot, sjob[s]).ret
    /\ SetSlot(accept_job(Slot, sjob[s]).slot)
    /\ spc' = [spc EXCEPT ![s] = "r429_race"]
    /\ sjob' = [sjob EXCEPT ![s] = NoJob]
    /\ UNCHANGED <<dresult, sfail, cb_args, callVars, threadVars, cfgVars, loaded, cb_calls, histVars>>

tryon_accept_spawn_Unchecked(s) ==
    /\ spc[s] = "admit"
    /\ EventLoopFree
    /\ SetSlot(accept_job(Slot, sjob[s]).slot)
    /\ \E shape \in ConfigShapes :
        /\ spc' = [spc EXCEPT ![s] = IF ConfigResolves(shape) THEN "t_start" ELSE "r500"]
        /\ sjob' = [sjob EXCEPT ![s] = IF ConfigResolves(shape) THEN @ ELSE NoJob]
    /\ UNCHANGED <<dresult, sfail, cb_args, callVars, threadVars, cfgVars, loaded, cb_calls, histVars>>

\* accept_job returned True; the config is resolved and the task created,
\* or resolving it raises and the handler ends in the 500 response
tryon_accept_spawn(s) ==
    /\ spc[s] = "admit"
    /\ EventLoopFree
    /\ accept_job(Slot, sjob[s]).ret
    /\ SetSlot(accept_job(Slot, sjob[s]).slot)
    /\ \E shape \in ConfigShapes :
        /\ spc' = [spc EXCEPT ![s] = IF ConfigResolves(shape) THEN "t_start" ELSE "r500"]
        /\ sjob' = [sjob EXCEPT ![s] = IF ConfigResolves(shape) THEN @ ELSE NoJob]
    /\ UNCHANGED <<dresult, sfail, cb_args, callVars, threadVars, cfgVars, loaded, cb_calls, histVars>>

\* how the part of process_inference_async before the engine call can end:
\* save_uploaded_file raises, validate_image_file reports an invalid image
StartOutcomes == {"save_failed", "invalid_image", "ok"}

ReachesEngine_Unvalidated(o) == o # "save_failed"

\* `if not is_valid: raise ValueError` after each validate_image_file:
\* the statement calling run_inference is reached only with both uploads
\* saved and valid
ReachesEngine(o) == o = "ok"

\* the two uploads a task writes to upload_*.tmp files
TmpFiles == {"masked", "garment"}

\* how a save_uploaded_file call can go: open(temp_path, "wb") raises;
\* the file is created and read(), write() or seek(0) raises; the path
\* is returned
SaveOutcomes == {"open_raises", "write_raises", "saved"}

\* save_uploaded_file: whether the path comes back to the caller, and
\* whether the file it opened for writing is on disk afterwards
save_uploaded_file(r) == [returned |-> r = "saved", on_disk |-> r # "open_raises"]

\* process_inference_async up to the engine call: save both uploads,
\* validate both images
process_inference_async_start(s) ==
    /\ spc[s] = "t_start"
    /\ EventLoopFree
    /\ \E r1 \in SaveOutcomes, r2 \in SaveOutcomes, valid \in BOOLEAN :
        LET m == save_uploaded_file(r1)
            g == save_uploaded_file(r2)
            o == IF ~m.returned \/ ~g.returned THEN "save_failed"
                 ELSE IF valid THEN "ok" ELSE "invalid_image"
        IN  /\ o \in StartOutcomes
            /\ spc' = [spc EXCEPT ![s] = IF ReachesEngine(o) THEN "running" ELSE "except"]
            /\ sfail' = [sfail EXCEPT ![s] = IF o = "ok" THEN @ ELSE o]
            /\ is_valid' = [is_valid EXCEPT ![s] = o # "invalid_image"]
            /\ tmp_paths' = [tmp_paths EXCEPT ![s] =
                               IF ~m.returned THEN {}
                               ELSE IF ~g.returned THEN {"masked"}
                               ELSE TmpFiles]
            /\ tmp_on_disk' = [tmp_on_disk EXCEPT ![s] =
                                 (IF m.on_disk THEN {"masked"} ELSE {})
                                 \cup (IF m.returned /\ g.on_disk THEN {"garment"} ELSE {})]
    /\ UNCHANGED <<schedVars, sjob, dresult, cb_args, callVars, threadVars, cfgVars, loaded, cb_calls,
                   engine, seen, sref, _scheduler>>

\* send_callback(..., output_image_path=output_image_path,
\* inference_time_ms=inference_time_ms): the image written by the engine and
\* the measured time (1 stands for any positive number of milliseconds)
SuccessCallbackArgs ==
    [output_image_path |-> "output", inference_time_ms |-> 1, error |-> ""]

run_inference_raises_Wrapped(ready) == "engine_raised"

\* the text of the RuntimeError run_inference raises: "Models not loaded.
\* Call load_models_once() first." from the check ahead of its try block,
\* "Inference failed: ..." from the except clause around the workflow
run_inference_raises(ready) == IF ~ready THEN "not_ready" ELSE "engine_raised"

\* await run_inference(...): the readiness check, then the workflow, which
\* has no await inside; a result comes back, with which send_callback is
\* called, or RuntimeError is raised
run_inference_return(s) ==
    /\ spc[s] = "running"
    /\ \E ready \in is_models_loaded, ok \in BOOLEAN :
        IF ready /\ ok
        THEN /\ spc' = [spc EXCEPT ![s] = "deliver"]
             /\ cb_args' = [cb_args EXCEPT ![s] = SuccessCallbackArgs]
             /\ engine' = [engine EXCEPT ![s] = "returned"]
             /\ UNCHANGED sfail
        ELSE /\ spc' = [spc EXCEPT ![s] = "except"]
             /\ sfail' = [sfail EXCEPT ![s] = run_inference_raises(ready)]
             /\ engine' = [engine EXCEPT ![s] = IF ready THEN "raised" ELSE "not_ready"]
             /\ UNCHANGED cb_args
    /\ UNCHANGED <<schedVars, sjob, dresult, callVars, threadVars, cfgVars, loaded, cb_calls,
                   tmp_paths, tmp_on_disk, seen, sref, is_valid, _scheduler>>

ErrorCallbackArgs_Untouched(e) ==
    [output_image_path |-> "output", inference_time_ms |-> 1, error |-> e]

\* send_error_callback(error): send_callback(output_image_path="",
\* inference_time_ms=0, error=error)
ErrorCallbackArgs(e) ==
    [output_image_path |-> "", inference_time_ms |-> 0, error |-> e]

process_inference_async_except_ReleasesFirst(s) ==
    /\ spc[s] = "except"
    /\ EventLoopFree
    /\ spc' = [spc EXCEPT ![s] = "deliver"]
    /\ dresult' = [dresult EXCEPT ![s] = "none"]
    /\ cb_args' = [cb_args EXCEPT ![s] = ErrorCallbackArgs(sfail[s])]
    /\ SetSlot(complete_job(Slot, sjob[s]))
    /\ UNCHANGED <<sjob, sfail, callVars, threadVars, cfgVars, loaded, cb_calls, histVars>>

\* except Exception as e: await send_error_callback(..., error=str(e));
\* the text of e is the name of the failure
process_inference_async_except(s) ==
    /\ spc[s] = "except"
    /\ EventLoopFree
    /\ spc' = [spc EXCEPT ![s] = "deliver"]
    /\ dresult' = [dresult EXCEPT ![s] = "none"]
    /\ cb_args' = [cb_args EXCEPT ![s] = ErrorCallbackArgs(sfail[s])]
    /\ UNCHANGED <<schedVars, sjob, sfail, callVars, threadVars, cfgVars, loaded, cb_calls, histVars>>

\* which send_callback a task is in: the one of the try block (success
\* outcome, output image attached) or send_error_callback's (error outcome)
dkind(s) == IF sfail[s] = "none" THEN "success" ELSE "error"

\* the multipart form send_callback builds from its arguments: the time as
\* str(int(...)), the error field only `if error`, the image only when the
\* path is non-empty (and the file exists)
Payload(args) ==
    [inference_time_ms |-> args.inference_time_ms,
     has_error |-> args.error # "",
     error |-> args.error,
     output_image |-> args.output_image_path # ""]

AfterFinally_Leak(open) == open

\* finally: if file_handle: file_handle.close()
AfterFinally(open) == FALSE

BackoffDelay_Doubled(a) == 2 ^ (a + 1)

\* await asyncio.sleep(2 ** attempt)
BackoffDelay(a) == 2 ^ a

\* len(range(n)): how many times `for attempt in range(n)` runs its body
RangeLen(n) == IF n > 0 THEN n ELSE 0

RangeEmpty_DoWhile(n) == FALSE

\* `for attempt in range(max_retries)`: the loop body never runs when
\* max_retries is 0 or negative
RangeEmpty(n) == n <= 0

\* send_callback before its loop: read the config, open the output image
\* (only the success outcome has one), enter `for attempt in range(max_retries)`
send_callback_begin(s) ==
    /\ spc[s] = "deliver"
    /\ EventLoopFree
    /\ \E open_ok \in BOOLEAN :
        IF ~retries_present \/ (Payload(cb_args[s]).output_image /\ ~open_ok)
        THEN \* get_asset_retries() or open() raises before the try
             /\ spc' = [spc EXCEPT ![s] = "d_ret"]
             /\ dresult' = [dresult EXCEPT ![s] = "raise"]
             /\ UNCHANGED <<attempt, file_handle>>
        ELSE IF RangeEmpty(max_retries)
        THEN \* empty range: finally closes the handle, return False
             /\ spc' = [spc EXCEPT ![s] = "d_ret"]
             /\ dresult' = [dresult EXCEPT ![s] = "False"]
             /\ file_handle' = [file_handle EXCEPT ![s] =
                                  AfterFinally(Payload(cb_args[s]).output_image)]
             /\ UNCHANGED attempt
        ELSE /\ spc' = [spc EXCEPT ![s] = "d_post"]
             /\ attempt' = [attempt EXCEPT ![s] = 0]
             /\ file_handle' = [file_handle EXCEPT ![s] = Payload(cb_args[s]).output_image]
             /\ UNCHANGED dresult
    /\ cb_calls' = [cb_calls EXCEPT ![s] = Append(@, dkind(s))]
    /\ UNCHANGED <<schedVars, sjob, sfail, cb_args, response, posts, delays, got2xx,
                   threadVars, cfgVars, loaded, histVars>>

\* await client.post(...) comes back
send_callback_post(s) ==
    /\ spc[s] = "d_post"
    /\ EventLoopFree
    /\ \E r \in Responses :
        /\ response' = [response EXCEPT ![s] = r]
        /\ posts' = [posts EXCEPT ![s] = @ + 1]
        /\ got2xx' = [got2xx EXCEPT ![s] = @ \/ Is2xx(r)]
        /\ IF ResponseOk(r)
           THEN \* return True through finally
                /\ spc' = [spc EXCEPT ![s] = "d_ret"]
                /\ dresult' = [dresult EXCEPT ![s] = "True"]
                /\ file_handle' = [file_handle EXCEPT ![s] = AfterFinally(@)]
                /\ attempt' = [attempt EXCEPT ![s] = 0]
                /\ UNCHANGED delays
           ELSE IF attempt[s] < max_retries - 1
           THEN \* await asyncio.sleep(2 ** attempt)
                /\ spc' = [spc EXCEPT ![s] = "d_sleep"]
                /\ delays' = [delays EXCEPT ![s] = Append(@, BackoffDelay(attempt[s]))]
                /\ UNCHANGED <<dresult, file_handle, attempt>>
           ELSE \* range exhausted: finally, log callback_failed, return False
                /\ spc' = [spc EXCEPT ![s] = "d_ret"]
                /\ dresult' = [dresult EXCEPT ![s] = "False"]
                /\ file_handle' = [file_handle EXCEPT ![s] = AfterFinally(@)]
                /\ attempt' = [attempt EXCEPT ![s] = 0]
                /\ UNCHANGED delays
    /\ UNCHANGED <<schedVars, sjob, sfail, cb_args, threadVars, cfgVars, loaded, cb_calls, histVars>>

send_callback_sleep_Releases(s) ==
    /\ spc[s] = "d_sleep"
    /\ EventLoopFree
    /\ attempt' = [attempt EXCEPT ![s] = @ + 1]
    /\ response' = [response EXCEPT ![s] = "none"]
    /\ spc' = [spc EXCEPT ![s] = "d_post"]
    /\ SetSlot(complete_job(Slot, sjob[s]))
    /\ UNCHANGED <<sjob, file_handle, dresult, sfail, cb_args, posts, delays, got2xx,
                   threadVars, cfgVars, loaded, cb_calls, histVars>>

\* the backoff sleep ends, the loop takes its next attempt
send_callback_sleep(s) ==
    /\ spc[s] = "d_sleep"
    /\ EventLoopFree
    /\ attempt' = [attempt EXCEPT ![s] = @ + 1]
    /\ response' = [response EXCEPT ![s] = "none"]
    /\ spc' = [spc EXCEPT ![s] = "d_post"]
    /\ UNCHANGED <<schedVars, sjob, file_handle, dresult, sfail, cb_args, posts, delays,
                   got2xx, threadVars, cfgVars, loaded, cb_calls, histVars>>

\* send_callback is back in process_inference_async: a raise inside the
\* try goes to the except clause, anything else falls to finally
send_callback_return(s) ==
    /\ spc[s] = "d_ret"
    /\ EventLoopFree
    /\ IF dkind(s) = "success" /\ dresult[s] = "raise"
       THEN /\ spc' = [spc EXCEPT ![s] = "except"]
            /\ sfail' = [sfail EXCEPT ![s] = "callback_raised"]
       ELSE /\ spc' = [spc EXCEPT ![s] = "finally"]
            /\ UNCHANGED sfail
    /\ response' = [response EXCEPT ![s] = "none"]
    /\ posts' = [posts EXCEPT ![s] = 0]
    /\ delays' = [delays EXCEPT ![s] = <<>>]
    /\ got2xx' = [got2xx EXCEPT ![s] = FALSE]
    /\ UNCHANGED <<schedVars, sjob, attempt, file_handle, dresult, cb_args,
                   threadVars, cfgVars, loaded, cb_calls, histVars>>

\* what cleanup_file leaves of the files on disk: it removes the file at
\* the path it is given
cleanup_file(on_disk, paths) == on_disk \ paths

\* finally, first part: cleanup_file for each of temp_masked_path and
\* temp_garment_path that is set
process_inference_async_cleanup(s) ==
    /\ spc[s] = "finally"
    /\ EventLoopFree
    /\ tmp_on_disk' = [tmp_on_disk EXCEPT ![s] = cleanup_file(@, tmp_paths[s])]
    /\ spc' = [spc EXCEPT ![s] = "release"]
    /\ UNCHANGED <<schedVars, sjob, dresult, sfail, cb_args, callVars, threadVars, cfgVars, loaded, cb_calls,
                   engine, tmp_paths, seen, sref, is_valid, _scheduler>>

process_inference_async_finally_ReleaseAfterTry(s) ==
    /\ spc[s] = "release"
    /\ EventLoopFree
    /\ _scheduler' = get_scheduler(_scheduler).global
    /\ sref' = [sref EXCEPT ![s] = get_scheduler(_scheduler).ret]
    /\ IF dresult[s] = "raise"
       THEN UNCHANGED schedVars
       ELSE SetSlot(complete_job(Slot, sjob[s]))
    /\ spc' = [spc EXCEPT ![s] = "done"]
    /\ sjob' = [sjob EXCEPT ![s] = NoJob]
    /\ tmp_paths' = [tmp_paths EXCEPT ![s] = {}]
    /\ sfail' = [sfail EXCEPT ![s] = "none"]
    /\ cb_args' = [cb_args EXCEPT ![s] = NoArgs]
    /\ engine' = [engine EXCEPT ![s] = "idle"]
    /\ is_valid' = [is_valid EXCEPT ![s] = TRUE]
    /\ cb_calls' = [cb_calls EXCEPT ![s] = <<>>]
    /\ UNCHANGED <<dresult, callVars, threadVars, cfgVars, loaded, tmp_on_disk, seen>>

\* finally, second part: get_scheduler().complete_job(job_id); the task
\* ends and its locals with it, dresult keeping how its last send_callback
\* call ended
process_inference_async_finally(s) ==
    /\ spc[s] = "release"
    /\ EventLoopFree
    /\ _scheduler' = get_scheduler(_scheduler).global
    /\ sref' = [sref EXCEPT ![s] = get_scheduler(_scheduler).ret]
    /\ SetSlot(complete_job(Slot, sjob[s]))
    /\ spc' = [spc EXCEPT ![s] = "done"]
    /\ sjob' = [sjob EXCEPT ![s] = NoJob]
    /\ tmp_paths' = [tmp_paths EXCEPT ![s] = {}]
    /\ sfail' = [sfail EXCEPT ![s] = "none"]
    /\ cb_args' = [cb_args EXCEPT ![s] = NoArgs]
    /\ engine' = [engine EXCEPT ![s] = "idle"]
    /\ is_valid' = [is_valid EXCEPT ![s] = TRUE]
    /\ cb_calls' = [cb_calls EXCEPT ![s] = <<>>]
    /\ UNCHANGED <<dresult, callVars, threadVars, cfgVars, loaded, tmp_on_disk, seen>>

Init ==
    /\ SchedulerInit
    /\ ThreadsIdle
    /\ ConfigInit
    /\ SubsInit

Next ==
    \E s \in Subs :
        \/ tryon_check(s)
        \/ get_gpu_status(s)
        \/ health(s)
        \/ tryon_accept_rejected(s)
        \/ tryon_accept_spawn(s)
        \/ process_inference_async_start(s)
        \/ run_inference_return(s)
        \/ process_inference_async_except(s)
        \/ send_callback_begin(s)
        \/ send_callback_post(s)
        \/ send_callback_sleep(s)
        \/ send_callback_return(s)
        \/ process_inference_async_cleanup(s)
        \/ process_inference_async_finally(s)

Spec == Init /\ [][Next]_vars

\* ======================================================================
\* Properties of GPUScheduler, checked under SchedSpec.  A call is judged
\* at "unlock": its body has run, the lock is still held, and tpre is the
\* slot state the call found when it entered the lock.
\* ======================================================================
AcceptDone(t) == tpc[t] = "unlock" /\ top[t] = "accept"
CompleteDone(t) == tpc[t] = "unlock" /\ top[t] = "complete"

\* C1: mutual exclusion of admission.  At most one admission is outstanding
\* at any time; an accept_job call returns True exactly when no admission
\* was outstanding as it entered the lock, so of the calls racing for a
\* free slot one returns True and the others False, and accept_job keeps
\* returning False until complete_job is called with the admitted job id.
\* Between calls the slot is busy exactly while an admission is outstanding.
C1_MutualExclusion ==
    /\ AdmittedCount <= 1
    /\ \A t \in Threads :
         AcceptDone(t) => (tret[t] = "True" <=> tpre[t].admitted = 0)
    /\ lockHolder = 0 => (busy <=> AdmittedCount = 1)

\* an accept_job call has been rejected because another job is admitted
C1_Witness ==
    \E t \in Threads :
        /\ AcceptDone(t)
        /\ tret[t] = "False"
        /\ tpre[t].admitted = 1
        /\ AdmittedCount = 1

\* C3: between calls, queue_length is 0 or 1 and is 1 exactly when busy.
C3_SlotStateInvariant ==
    lockHolder = 0 =>
        /\ queue_length \in {0, 1}
        /\ (queue_length = 1 <=> busy)

\* C4: after complete_job with a job id other than the occupant's, the
\* slot is not busy.
C4_DefensiveRelease ==
    \A t \in Threads :
        CompleteDone(t) /\ tpre[t].current_job_id # targ[t] => ~busy

\* C7: an accept_job call that finds the slot busy returns False and leaves
\* busy, current_job_id and queue_length as it found them.
C7_RejectedAcceptNoOp ==
    \A t \in Threads :
        AcceptDone(t) /\ tpre[t].busy =>
            /\ tret[t] = "False"
            /\ busy = tpre[t].busy
            /\ current_job_id = tpre[t].current_job_id
            /\ queue_length = tpre[t].queue_length

\* a rejected accept_job whose job id differs from the occupant's
C7_Witness ==
    \E t \in Threads :
        /\ AcceptDone(t)
        /\ tpre[t].busy
        /\ tret[t] = "False"
        /\ targ[t] # current_job_id

\* C8: an accept_job call that finds the slot free returns True with
\* busy set, current_job_id the job id and queue_length one more than
\* found; the intermediate states exist only inside the caller's lock.
C8_SuccessfulAccept ==
    /\ \A t \in Threads :
         AcceptDone(t) /\ ~tpre[t].busy =>
            /\ tret[t] = "True"
            /\ busy
            /\ current_job_id = targ[t]
            /\ queue_length = tpre[t].queue_length + 1
    /\ \A t \in Threads :
         tpc[t] \in {"a_set_busy", "a_set_job", "a_incr"} => lockHolder = t

C8_Witness ==
    \E t \in Threads :
        /\ AcceptDone(t)
        /\ ~tpre[t].busy
        /\ tret[t] = "True"
        /\ queue_length = 1

\* C9: after complete_job with the occupant's job id the slot is not busy,
\* current_job_id is None and queue_length is one less than found, or 0
\* when it was already 0.
C9_MatchingRelease ==
    \A t \in Threads :
        CompleteDone(t) /\ tpre[t].current_job_id = targ[t] =>
            /\ ~busy
            /\ current_job_id = NoJob
            /\ queue_length >= 0
            /\ queue_length =
                 IF tpre[t].queue_length >= 1 THEN tpre[t].queue_length - 1 ELSE 0

C9_Witness ==
    \E t \in Threads :
        /\ CompleteDone(t)
        /\ tpre[t].current_job_id = targ[t]
        /\ tpre[t].queue_length = 1
        /\ queue_length = 0
        /\ ~busy

\* C10: complete_job with a job id other than the recorded occupant's
\* (an already free slot included) runs to its end without raising, has
\* logged the warning, and has decremented queue_length if it was above 0.
C10_MismatchedRelease ==
    \A t \in Threads :
        CompleteDone(t) /\ tpre[t].current_job_id # targ[t] =>
            /\ twarn[t]
            /\ tret[t] = "None"
            /\ queue_length =
                 IF tpre[t].queue_length > 0
                 THEN tpre[t].queue_length - 1
                 ELSE tpre[t].queue_length

C10_Witness ==
    \E t \in Threads :
        /\ CompleteDone(t)
        /\ tpre[t].current_job_id # targ[t]
        /\ tpre[t].queue_length = 1
        /\ queue_length = 0
        /\ twarn[t]

\* C11: the admission scenario.  An accept_job call returns True exactly
\* when it finds the slot free (J1 on a free slot: True; J2 right after:
\* False); a complete_job carrying the admitted job id leaves the slot free
\* with no admission outstanding, and between calls a slot without an
\* outstanding admission is free, so the next accept_job returns True
\* whatever its job id.
C11_AdmissionScenario ==
    /\ \A t \in Threads :
         AcceptDone(t) => (tret[t] = "True" <=> ~tpre[t].busy)
    /\ \A t \in Threads :
         CompleteDone(t) /\ tpre[t].busy /\ tpre[t].current_job_id = targ[t] =>
            ~busy /\ AdmittedCount = 0
    /\ lockHolder = 0 /\ AdmittedCount = 0 => ~busy

\* after J1 was admitted and released, a call with another job id is admitted
C11_Witness ==
    \E t \in Threads :
        /\ AcceptDone(t)
        /\ tret[t] = "True"
        /\ last_released # NoJob
        /\ last_released # targ[t]

CanAcceptDone(t) == tpc[t] = "unlock" /\ top[t] = "can_accept"
StatusDone(t) == tpc[t] = "unlock" /\ top[t] = "status"

\* C12: can_accept_job returns True exactly when the slot is not busy as it
\* reads it, and leaves busy, current_job_id and queue_length as they were.
C12_CanAccept ==
    \A t \in Threads :
        CanAcceptDone(t) =>
            /\ tret[t] = "True" <=> ~tpre[t].busy
            /\ busy = tpre[t].busy
            /\ current_job_id = tpre[t].current_job_id
            /\ queue_length = tpre[t].queue_length

\* can_accept_job has answered False on a busy slot
C12_Witness ==
    \E t \in Threads :
        /\ CanAcceptDone(t)
        /\ busy
        /\ tret[t] = "False"

\* C13: the dict get_status returns holds the three fields as they were at
\* one instant, the entry into the lock; a partly built dict exists only
\* inside the lock.
C13_StatusSnapshot ==
    /\ \A t \in Threads :
         StatusDone(t) =>
            /\ tsnap[t].busy = tpre[t].busy
            /\ tsnap[t].current_job_id = tpre[t].current_job_id
            /\ tsnap[t].queue_length = tpre[t].queue_length
    /\ \A t \in Threads :
         tpc[t] \in {"s_busy", "s_job", "s_len"} => lockHolder = t

\* get_status has read a busy slot while another call waits at the lock
C13_Witness ==
    \E t, u \in Threads :
        /\ StatusDone(t)
        /\ tsnap[t].busy
        /\ tsnap[t].current_job_id # NoJob
        /\ tsnap[t].queue_length = 1
        /\ tpc[u] \in {"a_lock", "c_lock"}

\* ======================================================================
\* Properties of the composed service, checked under Spec.
\* ======================================================================
\* a background task exists for the submission and has not ended
TaskPcs == {"t_start", "running", "except", "deliver", "d_post", "d_sleep",
            "d_ret", "finally", "release"}

\* accept_job returned True for the submission and complete_job has not
\* been called for it
Holding(s) == spc[s] \in TaskPcs \cup {"r500"}

\* C2: at most one submission is between its successful accept_job and its
\* complete_job, and the engine runs for at most one job at a time.
C2_SingleOccupant ==
    /\ Cardinality({s \in Subs : Holding(s)}) <= 1
    /\ Cardinality({s \in Subs : spc[s] = "running"}) <= 1

\* the engine runs for one submission while another, which had passed
\* can_accept_job, has lost the race at accept_job
C2_Witness ==
    \E s1, s2 \in Subs :
        /\ spc[s1] = "running"
        /\ spc[s2] = "r429_race"

\* C5: the step that ends a run of process_inference_async leaves the slot
\* not busy, whichever way the run went.
C5_SlotAlwaysFreed ==
    [][\A s \in Subs : (spc[s] = "release" /\ spc'[s] = "done") => ~busy']_vars

\* a run has ended after a failure whose error callback used up its attempts
C5_Witness ==
    \E s \in Subs :
        /\ spc[s] = "done"
        /\ dresult[s] = "False"
        /\ tmp_on_disk[s] = {}
        /\ ~busy

\* C6: a submission that holds the slot always has a background task that
\* has yet to reach its finally clause, so complete_job is still to come.
C6_AcceptedReachesReleased ==
    \A s \in Subs : Holding(s) => spc[s] \in TaskPcs


\* ======================================================================
\* Properties of send_callback, checked under Spec.  A call is judged at
\* "d_ret": it has come back, and posts, delays and got2xx still hold
\* what it did.
\* ======================================================================
DeliverReturned(s) == spc[s] = "d_ret" /\ dresult[s] # "raise"

\* the sleeps of a call that made n attempts, all followed by another
ExpectedDelays(n) == [k \in 1..(n - 1) |-> 2 ^ (k - 1)]

\* C14: with max_retries N >= 1 and no attempt answered by a 2xx response,
\* send_callback posts exactly N times, sleeps 2^(k-2) seconds before
\* attempt k for k in 2..N and not after the last attempt, and returns
\* False; while the call runs, the sleeps taken so far follow that series.
C14_RetryBackoff ==
    /\ \A s \in Subs :
         DeliverReturned(s) /\ max_retries >= 1 /\ ~got2xx[s] =>
            /\ dresult[s] = "False"
            /\ posts[s] = max_retries
            /\ delays[s] = ExpectedDelays(max_retries)
    /\ \A s \in Subs :
         spc[s] \in {"d_post", "d_sleep"} =>
            /\ delays[s] = ExpectedDelays(Len(delays[s]) + 1)
            /\ Len(delays[s]) = posts[s]

\* three attempts failed: sleeps of 1 and 2 seconds, False returned
C14_Witness ==
    \E s \in Subs :
        /\ DeliverReturned(s)
        /\ max_retries = 3
        /\ ~got2xx[s]
        /\ posts[s] = 3
        /\ delays[s] = <<1, 2>>
        /\ dresult[s] = "False"

\* C15: send_callback returns True at the first attempt answered by a 2xx
\* response, whichever 2xx status it is, and makes no further attempt; it
\* goes on to another attempt or to False only after a transport failure
\* or a non-2xx response.
C15_StopsAtFirst2xx ==
    \A s \in Subs :
        /\ got2xx[s] => spc[s] = "d_ret" /\ dresult[s] = "True"
        /\ spc[s] = "d_ret" /\ dresult[s] = "True" => Is2xx(response[s])

\* C16: send_callback never posts more than max_retries times, and it
\* returns False only after max_retries posts none of which was answered
\* by a 2xx response.
C16_BoundedDelivery ==
    \A s \in Subs :
        /\ posts[s] <= RangeLen(max_retries)
        /\ DeliverReturned(s) /\ dresult[s] = "False" =>
              posts[s] = RangeLen(max_retries) /\ ~got2xx[s]

\* C17: the handle of the attached output image is open from the first
\* attempt to the last, and closed whenever send_callback is not in its
\* loop: after True, after False on exhaustion or on an empty range, and
\* after a raise.
C17_HandleReleased ==
    \A s \in Subs :
        /\ spc[s] \in {"d_post", "d_sleep"} =>
              file_handle[s] = Payload(cb_args[s]).output_image
        /\ spc[s] \notin {"d_post", "d_sleep"} => ~file_handle[s]

\* a call with an attached image came back False after retrying
C17_Witness ==
    \E s \in Subs :
        /\ DeliverReturned(s)
        /\ dresult[s] = "False"
        /\ Payload(cb_args[s]).output_image
        /\ posts[s] >= 2
        /\ ~file_handle[s]

\* a step of send_callback for submission s
DeliverStep(s) == spc[s] \in {"deliver", "d_post", "d_sleep"} /\ spc'[s] # spc[s]

\* C18: no step of send_callback changes busy, current_job_id or
\* queue_length, whatever the call ends with.
C18_DeliverLeavesSlot ==
    [][\A s \in Subs : DeliverStep(s) => UNCHANGED schedVars]_vars

\* a call came back False after a backoff sleep, the slot still held by
\* its job
C18_Witness ==
    \E s \in Subs :
        /\ DeliverReturned(s)
        /\ dresult[s] = "False"
        /\ Len(delays[s]) >= 1
        /\ busy
        /\ current_job_id = sjob[s]
        /\ queue_length = 1

\* the step in which the task of submission s calls complete_job
ReleaseStep(s) == spc[s] = "release" /\ spc'[s] = "done"

\* C19: when run_inference raises, send_callback is called with the error
\* text, inference_time_ms 0 and no output image; it has come back before
\* complete_job is called, the slot staying with the job until then, and
\* the complete_job call leaves the slot free.
C19_EngineFailure ==
    /\ [](\A s \in Subs :
            sfail[s] = "engine_raised" =>
                /\ spc[s] \in {"deliver", "d_post", "d_sleep", "d_ret", "finally", "release"} =>
                      /\ cb_args[s].error = "engine_raised"
                      /\ cb_args[s].inference_time_ms = 0
                      /\ cb_args[s].output_image_path = ""
                      /\ Payload(cb_args[s]).has_error
                      /\ ~Payload(cb_args[s]).output_image
                      /\ busy
                      /\ current_job_id = sjob[s]
                /\ spc[s] \in {"finally", "release"} => dresult[s] # "none")
    /\ [][\A s \in Subs : sfail[s] = "engine_raised" /\ ReleaseStep(s) => ~busy']_vars

\* the error outcome of an engine failure was delivered, the slot about to
\* be released
C19_Witness ==
    \E s \in Subs :
        /\ sfail[s] = "engine_raised"
        /\ spc[s] = "release"
        /\ dresult[s] = "True"
        /\ busy
        /\ current_job_id = sjob[s]

\* C20: no task of process_inference_async ends with an exception, a raise
\* of send_error_callback included.
C20_NoEscape ==
    \A s \in Subs : spc[s] = "done" => dresult[s] # "raise"

\* ======================================================================
\* Properties of process_inference_async, checked under Spec.
\* ======================================================================
DeliverPcs == {"deliver", "d_post", "d_sleep", "d_ret"}

\* C21: when validate_image_file rejects an upload, run_inference is never
\* called for the job, and the send_callback call that follows is the error
\* outcome naming the invalid image.
C21_ValidationSkipsEngine ==
    \A s \in Subs :
        ~is_valid[s] =>
            /\ engine[s] = "idle"
            /\ spc[s] \in {"except", "deliver", "d_post", "d_sleep", "d_ret",
                           "finally", "release", "done"}
            /\ spc[s] \in DeliverPcs =>
                  /\ cb_args[s] = ErrorCallbackArgs("invalid_image")
                  /\ Payload(cb_args[s]).has_error

\* the error outcome of an invalid upload was delivered, the engine untouched
C21_Witness ==
    \E s \in Subs :
        /\ ~is_valid[s]
        /\ spc[s] = "d_ret"
        /\ dresult[s] = "True"
        /\ engine[s] = "idle"

\* C22: a job whose run_inference returned a result is never the subject
\* of a send_callback call carrying an error, however the send_callback
\* call for its result ended.
C22_DeliveryKeepsClass ==
    \A s \in Subs :
        engine[s] = "returned" /\ spc[s] \in DeliverPcs =>
            ~Payload(cb_args[s]).has_error

\* C23: when a run of process_inference_async has ended, none of the
\* upload_*.tmp files written for it is on disk, whichever way it went,
\* a save_uploaded_file call that raised included.
C23_TempFilesDeleted ==
    \A s \in Subs : spc[s] = "done" => tmp_on_disk[s] = {}

\* C24: a task goes through saving and validating, the engine, the
\* callback and the release in that order, a failure skipping forward to
\* the callback; complete_job is called only once send_callback has come
\* back and the job's temporary files are deleted, and the slot stays with
\* the job through every attempt and backoff sleep of send_callback.
C24_LifecycleOrder ==
    /\ \A s \in Subs :
         /\ spc[s] \in {"t_start", "running"} => dresult[s] = "none" /\ ~file_handle[s]
         /\ spc[s] = "t_start" => engine[s] = "idle"
         /\ spc[s] \in DeliverPcs \cup {"except", "finally", "release"} =>
               busy /\ current_job_id = sjob[s] /\ queue_length = 1
         /\ spc[s] = "release" => dresult[s] # "none" /\ tmp_on_disk[s] = {}
    /\ \A s \in Subs : spc[s] \in {"new", "admit", "r401", "r400", "r429", "r429_race",
                                   "r500", "s200"} =>
         engine[s] = "idle" /\ dresult[s] = "none"

\* C25: while a task is inside run_inference, a pending GET /gpu/status
\* request can be served, and the slot it reads is busy with that task's
\* job id.
C25_ServedWhileRunning ==
    \A s \in Subs :
        spc[s] = "running" =>
            /\ busy
            /\ current_job_id = sjob[s]
            /\ \A q \in Subs : spc[q] = "new" => ENABLED get_gpu_status(q)

\* C26: when is_models_loaded() is false as run_inference is entered, the
\* workflow is not run, the RuntimeError raised is not the one of a failed
\* workflow, send_callback is called with that error, time 0 and no image,
\* and the complete_job call that follows leaves the slot free.
C26_ReadinessCheck ==
    /\ [](\A s \in Subs :
            engine[s] = "not_ready" =>
                /\ sfail[s] = "not_ready"
                /\ sfail[s] # run_inference_raises(TRUE)
                /\ spc[s] \in {"except", "deliver", "d_post", "d_sleep", "d_ret",
                               "finally", "release"}
                /\ spc[s] \in DeliverPcs =>
                      /\ cb_args[s] = ErrorCallbackArgs("not_ready")
                      /\ Payload(cb_args[s]).has_error
                /\ spc[s] \in {"finally", "release"} => dresult[s] # "none")
    /\ [][\A s \in Subs : engine[s] = "not_ready" /\ ReleaseStep(s) => ~busy']_vars

\* the error outcome of a job stopped by the readiness check was
\* delivered, the slot about to be released
C26_Witness ==
    \E s \in Subs :
        /\ engine[s] = "not_ready"
        /\ spc[s] = "release"
        /\ dresult[s] = "True"
        /\ busy

\* accept_job returned True for the submission
Accepted(s) == spc[s] \in TaskPcs \cup {"r500", "done"}

\* process_inference_async was started for the submission
Spawned(s) == spc[s] \in TaskPcs \cup {"done"}

\* C27: process_inference_async is started for a submission exactly when
\* accept_job returned True for it; a submission rejected as busy ends in
\* the 429 response, with no engine call and no callback made for it.
C27_SpawnedIffAccepted ==
    \A s \in Subs :
        /\ Accepted(s) <=> Spawned(s)
        /\ spc[s] \in {"r429", "r429_race"} =>
              engine[s] = "idle" /\ dresult[s] = "none" /\ tmp_on_disk[s] = {}

\* the step that answers a request with 401
Rejected401(s) == spc[s] = "new" /\ spc'[s] = "r401"

\* C28: a request whose X-Internal-Auth does not verify is answered 401
\* before get_scheduler, can_accept_job or accept_job is called: the step
\* leaves busy, current_job_id and queue_length as they are, obtains no
\* scheduler, and no task is ever started for the request.
C28_AuthBeforeAdmission ==
    [][\A s \in Subs :
          /\ Rejected401(s) => UNCHANGED <<schedVars, _scheduler, sref>>
          /\ spc[s] = "r401" => spc'[s] = "r401"]_vars

\* a submission was answered 401 while the slot was busy with another job
C28_Witness ==
    \E s \in Subs, u \in Subs :
        /\ spc[s] = "r401"
        /\ sref[s] = NoScheduler
        /\ spc[u] \in DeliverPcs
        /\ busy

\* C29: the handler of POST /tryon ends in 202, in 401 or in 429 and in
\* no other error response.
C29_SyncErrors ==
    \A s \in Subs : spc[s] \notin {"r400", "r500"}

\* a step that changes the slot is the accept_job call of a handler or the
\* complete_job call of a task
SlotWriter(s) ==
    \/ spc[s] = "admit" /\ spc'[s] # "admit"
    \/ spc[s] = "release" /\ spc'[s] = "done"

\* C30: every get_scheduler() call returns the one GPUScheduler instance,
\* constructed by the first call, and busy, current_job_id and
\* queue_length change only in accept_job and complete_job calls.
C30_Singleton ==
    /\ [](\A s \in Subs : sref[s] # NoScheduler => sref[s] = _scheduler)
    /\ [](\A s \in Subs, u \in Subs :
            sref[s] # NoScheduler /\ sref[u] # NoScheduler => sref[s] = sref[u])
    /\ [][_scheduler # NoScheduler => _scheduler' = _scheduler]_vars
    /\ [][schedVars' # schedVars => \E s \in Subs : SlotWriter(s)]_vars

\* the handler of a submission, the task of another and a status request
\* hold the same instance
C30_Witness ==
    \E s \in Subs, u \in Subs :
        /\ s # u
        /\ spc[s] = "done"
        /\ spc[u] = "s200"
        /\ sref[s] # NoScheduler
        /\ sref[s] = sref[u]
        /\ seen[u].busy

\* C31: submissions that carry the job id of the running job do no harm:
\* queue_length is never negative, and the slot goes from busy to free only
\* in the complete_job call of the task that holds it, made with the job id
\* the slot records; a submission answered 429 changes nothing of the slot.
C31_DuplicateIdsHarmless ==
    /\ [](queue_length >= 0)
    /\ [][busy /\ ~busy' =>
            \E s \in Subs :
                /\ ReleaseStep(s)
                /\ sjob[s] = current_job_id
                /\ \A u \in Subs \ {s} : ~Holding(u)]_vars
    /\ [][\A s \in Subs :
            spc[s] = "admit" /\ spc'[s] = "r429_race" =>
                UNCHANGED <<busy, current_job_id, queue_length>>]_vars

\* a submission with the job id of the running job waits for its accept_job
\* call while the task of that job is in send_callback
C31_DuplicateIdsHarmless_Witness ==
    \E s \in Subs, u \in Subs :
        /\ s # u
        /\ spc[s] \in DeliverPcs
        /\ spc[u] = "admit"
        /\ sjob[u] = sjob[s]
        /\ current_job_id = sjob[s]

\* C32: a request for which is_models_loaded() returned False in the
\* middleware is answered 503: no job id is taken from it, no get_scheduler
\* or get_status call is made for it, and the step that answers it leaves
\* busy, current_job_id, queue_length and the scheduler global unchanged;
\* 503 is the end of the request.
C32_NotAdmittedBeforeLoaded ==
    /\ [](\A s \in Subs :
            ~loaded[s] =>
                /\ spc[s] = "r503"
                /\ sjob[s] = NoJob
                /\ sref[s] = NoScheduler
                /\ seen[s] = NoStatus)
    /\ [][\A s \in Subs :
            /\ spc[s] # "r503" /\ spc'[s] = "r503" =>
                  UNCHANGED <<busy, current_job_id, queue_length, _scheduler>>
            /\ spc[s] = "r503" => spc'[s] = "r503"]_vars

\* a request is answered 503 although the slot is free
C32_NotAdmittedBeforeLoaded_Witness ==
    \E s \in Subs :
        /\ spc[s] = "r503"
        /\ ~loaded[s]
        /\ ~busy
        /\ current_job_id = NoJob

\* C33: from the accept_job call that returned True for job J until the
\* complete_job call of J's task, get_status() reports busy with
\* current_job_id J: while the uploads are saved and validated, while
\* run_inference runs, and through every post and every sleep of
\* send_callback; every /gpu/status response built in that time says so.
C33_OccupancyVisible ==
    /\ [](\A s \in Subs :
            spc[s] \in TaskPcs =>
                /\ get_status(Slot).busy
                /\ get_status(Slot).current_job_id = sjob[s])
    /\ [][\A s \in Subs, q \in Subs :
            spc[s] \in TaskPcs /\ spc[q] = "new" /\ spc'[q] = "s200" =>
                /\ seen'[q].busy
                /\ seen'[q].current_job_id = sjob[s]]_vars

\* a /gpu/status request is answered while the task of job J sleeps between
\* two posts, and names J as the running job
C33_OccupancyVisible_Witness ==
    \E s \in Subs, q \in Subs :
        /\ spc[s] = "d_sleep"
        /\ spc[q] = "s200"
        /\ seen[q].busy
        /\ seen[q].current_job_id = sjob[s]
        /\ delays[s] # <<>>

\* C34: whenever no accept_job or complete_job call is in the middle of its
\* locked region, current_job_id is set exactly when busy is True, whatever
\* calls were made before, complete_job calls with another job id included.
C34_JobIdMirrorsBusy ==
    (lockHolder = 0 \/ \E t \in Threads : tpc[t] = "unlock") =>
        (busy <=> current_job_id # NoJob)

\* a complete_job call with a job id other than the running job's has run
\* its body on a busy slot
C34_JobIdMirrorsBusy_Witness ==
    \E t \in Threads :
        /\ CompleteDone(t)
        /\ tpre[t].busy
        /\ targ[t] # tpre[t].current_job_id
        /\ busy
        /\ current_job_id = tpre[t].current_job_id

\* C35: a task that is about to call complete_job(job_id) finds the slot
\* busy and recording its own job id, so the call takes the matching branch:
\* it is the only such task, and the call leaves the slot free with
\* queue_length one lower.
C35_ReleaseAlwaysMatches ==
    /\ [](\A s \in Subs :
            spc[s] = "release" =>
                /\ busy
                /\ sjob[s] # NoJob
                /\ current_job_id = sjob[s]
                /\ complete_job(Slot, sjob[s]).busy = FALSE
                /\ \A u \in Subs \ {s} : spc[u] # "release")
    /\ [][\A s \in Subs :
            ReleaseStep(s) =>
                /\ current_job_id' = NoJob
                /\ queue_length' = queue_length - 1]_vars

\* a task is about to call complete_job after its success callback raised
\* and the error callback that followed failed, while a submission with the
\* same job id waits for its accept_job call
C35_ReleaseAlwaysMatches_Witness ==
    \E s \in Subs, u \in Subs :
        /\ s # u
        /\ spc[s] = "release"
        /\ sfail[s] = "callback_raised"
        /\ dresult[s] # "True"
        /\ spc[u] = "admit"
        /\ sjob[u] = sjob[s]

\* C36: a task calls send_callback at most once, and by the time it leaves
\* its try/except it has called it exactly once: with the success outcome
\* when run_inference returned, with the error outcome otherwise.
C36_DeliverExactlyOnce ==
    \A s \in Subs :
        /\ Len(cb_calls[s]) <= 1
        /\ spc[s] \in {"finally", "release"} =>
              cb_calls[s] = << IF engine[s] = "returned" THEN "success" ELSE "error" >>

\* C37: with asset_service.retries 0 or negative, send_callback makes no
\* post and no sleep, is never inside its loop, and when it has read its
\* configuration and opened the output image it returns False with the
\* handle closed.
C37_ZeroAttempts ==
    \A s \in Subs :
        max_retries <= 0 =>
            /\ posts[s] = 0
            /\ delays[s] = <<>>
            /\ ~got2xx[s]
            /\ spc[s] \notin {"d_post", "d_sleep"}
            /\ DeliverReturned(s) => dresult[s] = "False" /\ ~file_handle[s]

\* a success callback with an output image attached has returned False
\* under a configured retry count below 1
C37_ZeroAttempts_Witness ==
    \E s \in Subs :
        /\ retries_present
        /\ max_retries <= 0
        /\ DeliverReturned(s)
        /\ dresult[s] = "False"
        /\ Payload(cb_args[s]).output_image
        /\ cb_calls[s] = <<"success">>
====
